---- MODULE Spec2Model ----
(***************************************************************************)
(* brainrot-mcp: the context store of backend/server.py and the vector     *)
(* store of backend/database.py (tables contexts, context_vectors and      *)
(* vec_contexts), the MCP tools of mcp_server/server.py and of the         *)
(* packaged brainrot_mcp/__main__.py, and the tag cleanup script           *)
(* backend/cleanup_tags.py.                                                *)
(*                                                                         *)
(* Numbers with a fraction are kept in tenths: a distance of 0.5 is 5, a   *)
(* score of 1.9 is 19, a threshold of 1.0 is 10.                           *)
(*                                                                         *)
(* An embedding (384 float32 numbers) is kept as its length and one        *)
(* coordinate, pt, in tenths: the distance of two embeddings is the        *)
(* distance of their coordinates.                                          *)
(*                                                                         *)
(* A text is a sequence of one-character strings. An Optional[...] value   *)
(* is << >> for None and <<v>> for a value v.                              *)
(***************************************************************************)
EXTENDS Integers, Sequences, FiniteSets, TLC

VARIABLES
    enabled,          \* ENABLE_VECTOR_SEARCH of the running process
    contexts,         \* table contexts: a set of rows
    context_vectors,  \* table context_vectors: rows in rowid order
    vec_contexts,     \* virtual table vec_contexts: id -> stored vector
    pushedEnabled,    \* ids of the live records pushed while enabled (history)
    inflight,         \* the store_embedding calls under way, each with its position
    resp              \* the last call and what it returned

vars == <<enabled, contexts, context_vectors, vec_contexts, pushedEnabled,
          inflight, resp>>

----------------------------------------------------------------------------
(* Bounds of the model *)

\* contexts rows get ids 1..MaxId
MaxId == 2
\* context_vectors holds at most MaxRows rows
MaxRows == 2
\* the largest limit a search is called with
MaxLimit == 3
\* the ids 1..MaxIndexed are indexed before a direct similarity_search
MaxIndexed == 3
\* at most MaxCalls store_embedding calls are under way at once
MaxCalls == 2

(* Program constants *)

\* FLOAT[384]: the dimension vec_contexts is declared with
EmbeddingDim == 384
\* bytes of one float32 (np.float32)
Float32Bytes == 4
\* 2.0 of "2.0 - row[1]", in tenths
ScoreTop == 20

----------------------------------------------------------------------------
(* Values *)

None == << >>
Some(v) == <<v>>

Max(a, b) == IF a >= b THEN a ELSE b
Min(a, b) == IF a <= b THEN a ELSE b
Abs(a) == IF a >= 0 THEN a ELSE 0 - a

SetMax(S) == CHOOSE x \in S : \A y \in S : y <= x

\* the sequences of at most n elements of S
SeqsUpTo(S, n) == UNION {[1..k -> S] : k \in 0..n}

\* str.isspace for one character
IsSpace(c) == c \in {" ", "\t", "\n"}

RECURSIVE LStrip(_)
LStrip(s) ==
    IF s # << >> /\ IsSpace(Head(s)) THEN LStrip(Tail(s)) ELSE s

RECURSIVE RStrip(_)
RStrip(s) ==
    IF s # << >> /\ IsSpace(s[Len(s)]) THEN RStrip(SubSeq(s, 1, Len(s) - 1)) ELSE s

\* str.strip()
Strip(s) == RStrip(LStrip(s))

----------------------------------------------------------------------------
(* The embedding model: SentenceTransformer('all-MiniLM-L6-v2').encode *)

\* the coordinate one character adds to a text's embedding
CharVal(c) ==
    CASE c = "a" -> 1
      [] c = "b" -> 5
      [] c = "s" -> 2
      [] OTHER -> 0

RECURSIVE TextPoint(_)
TextPoint(t) == IF t = << >> THEN 0 ELSE CharVal(Head(t)) + TextPoint(Tail(t))

\* model.encode(text): a float32 array of EmbeddingDim numbers
Encode(t) == [dim |-> EmbeddingDim, pt |-> TextPoint(t)]

\* get_embedding_model(): the model, or None when vector search is off
get_embedding_model(en) == IF en THEN Some("all-MiniLM-L6-v2") ELSE None

\* self.summary or ''
SummaryOrEmpty(summary) == IF summary = None THEN << >> ELSE summary[1]

\* ContextDB.generate_embedding
generate_embedding(en, content, summary) ==
    IF get_embedding_model(en) = None
    THEN None
    ELSE Some(Encode(content \o <<" ">> \o SummaryOrEmpty(summary)))

----------------------------------------------------------------------------
(* Conversions of an embedding *)

\* embedding.tobytes(): Float32Bytes bytes per number
tobytes(e) == [nbytes |-> e.dim * Float32Bytes, pt |-> e.pt]

\* np.frombuffer(blob, dtype=np.float32)
frombuffer(b) == [dim |-> b.nbytes \div Float32Bytes, pt |-> b.pt]

\* json.dumps(embedding.tolist()): a JSON array of e.dim numbers
json_dumps_tolist(e) == [len |-> e.dim, pt |-> e.pt]

\* vec0 reads a JSON array into a float vector of its length
vec0_parse(j) == [dim |-> j.len, pt |-> j.pt]

\* the distance vec0 computes between two stored vectors, in tenths
Distance(u, v) == Abs(u.pt - v.pt)

----------------------------------------------------------------------------
(* DatabaseManager.store_embedding *)

\* INSERT OR REPLACE INTO context_vectors (context_id, embedding): the only
\* key of the table is its own rowid id, which the statement does not give,
\* so no row ever conflicts and every call appends a row.
InsertContextVector(cv, context_id, blob) ==
    Append(cv, [context_id |-> context_id, embedding |-> blob])

\* vec0 takes a vector only of the declared dimension FLOAT[384]
Vec0Accepts(v) == v.dim = EmbeddingDim

\* INSERT OR REPLACE INTO vec_contexts (id, embedding): id is the primary key
InsertVecContext(vec, id, v) ==
    [i \in DOMAIN vec \cup {id} |-> IF i = id THEN v ELSE vec[i]]

\* (variant) a commit after the first insert: the context_vectors row stays
\* when the second insert fails
store_embedding_CommitEach(en, cv, vec, context_id, embedding) ==
    IF ~en \/ embedding = None
    THEN [cv |-> cv, vec |-> vec, status |-> "skipped"]
    ELSE LET e   == embedding[1]
             cv1 == InsertContextVector(cv, context_id, tobytes(e))
             v   == vec0_parse(json_dumps_tolist(e))
         IN  IF ~Vec0Accepts(v)
             THEN [cv |-> cv1, vec |-> vec, status |-> "DimensionMismatch"]
             ELSE [cv |-> cv1, vec |-> InsertVecContext(vec, context_id, v),
                   status |-> "stored"]

\* (variant) without the insert into context_vectors
store_embedding_VecOnly(en, cv, vec, context_id, embedding) ==
    IF ~en \/ embedding = None
    THEN [cv |-> cv, vec |-> vec, status |-> "skipped"]
    ELSE LET e == embedding[1]
             v == vec0_parse(json_dumps_tolist(e))
         IN  IF ~Vec0Accepts(v)
             THEN [cv |-> cv, vec |-> vec, status |-> "DimensionMismatch"]
             ELSE [cv |-> cv, vec |-> InsertVecContext(vec, context_id, v),
                   status |-> "stored"]

\* store_embedding, on one connection: both inserts, then commit. An exception
\* leaves through "finally: raw_conn.close()", which rolls the open
\* transaction back.
store_embedding(en, cv, vec, context_id, embedding) ==
    IF ~en \/ embedding = None
    THEN [cv |-> cv, vec |-> vec, status |-> "skipped"]
    ELSE LET e   == embedding[1]
             cv1 == InsertContextVector(cv, context_id, tobytes(e))
             v   == vec0_parse(json_dumps_tolist(e))
         IN  IF ~Vec0Accepts(v)
             THEN [cv |-> cv, vec |-> vec, status |-> "DimensionMismatch"]
             ELSE [cv |-> cv1, vec |-> InsertVecContext(vec, context_id, v),
                   status |-> "stored"]

----------------------------------------------------------------------------
(* DatabaseManager.get_embedding *)

\* SELECT embedding FROM context_vectors WHERE context_id = ?, fetchone():
\* the table is scanned in rowid order, the first matching row is returned
FirstRowFor(cv, context_id) ==
    LET hits == {i \in 1..Len(cv) : cv[i].context_id = context_id}
    IN  IF hits = {} THEN None
        ELSE Some(cv[CHOOSE i \in hits : \A j \in hits : i <= j])

get_embedding(en, cv, context_id) ==
    IF ~en THEN None
    ELSE LET row == FirstRowFor(cv, context_id)
         IN  IF row = None THEN None ELSE Some(frombuffer(row[1].embedding))

----------------------------------------------------------------------------
(* DatabaseManager.similarity_search *)

\* (variant) the statement without ORDER BY distance: any limit rows, in any order
KnnRows_NoOrderBy(vec, q, limit) ==
    LET ids == DOMAIN vec
        n   == Min(limit, Cardinality(ids))
    IN  { [j \in 1..n |-> [id |-> f[j], distance |-> Distance(vec[f[j]], q)]] :
            f \in { g \in [1..n -> ids] : \A a, b \in 1..n : a < b => g[a] # g[b] } }

\* SELECT id, distance FROM vec_contexts WHERE embedding MATCH ?
\* ORDER BY distance LIMIT ?: every row sequence the statement may return.
\* Rows at the same distance come in any order, and any of them fill the
\* last places.
KnnRows(vec, q, limit) ==
    LET ids == DOMAIN vec
        n   == Min(limit, Cardinality(ids))
        d(i) == Distance(vec[i], q)
    IN  { [j \in 1..n |-> [id |-> f[j], distance |-> d(f[j])]] :
            f \in { g \in [1..n -> ids] :
                      /\ \A a, b \in 1..n : a < b => g[a] # g[b]
                      /\ \A a, b \in 1..n : a < b => d(g[a]) <= d(g[b])
                      /\ \A i \in ids :
                            (\A a \in 1..n : g[a] # i) =>
                                \A a \in 1..n : d(g[a]) <= d(i) } }

\* (variant) the comprehension without its condition
PassesThreshold_NoFilter(row, threshold) == TRUE

\* "if (2.0 - row[1]) >= threshold"
PassesThreshold(row, threshold) == (ScoreTop - row.distance) >= threshold

\* (variant) "(row[0], 2.0 - row[1])", without max
ScoreOf_NoClamp(row) == <<row.id, ScoreTop - row.distance>>

\* "(row[0], max(0.0, 2.0 - row[1]))"
ScoreOf(row) == <<row.id, Max(0, ScoreTop - row.distance)>>

\* the list comprehension over the fetched rows
RECURSIVE ScoredRows(_, _)
ScoredRows(rows, threshold) ==
    IF rows = << >> THEN << >>
    ELSE (IF PassesThreshold(Head(rows), threshold)
          THEN <<ScoreOf(Head(rows))>> ELSE << >>)
         \o ScoredRows(Tail(rows), threshold)

\* (variant) similarity_search without the checks of ENABLE_VECTOR_SEARCH
similarity_search_NoFlagCheck(en, storage_ok, vec, query_text, limit, threshold) ==
    LET q == vec0_parse(json_dumps_tolist(Encode(query_text)))
    IN  IF ~storage_ok
        THEN {[result |-> << >>, touched |-> {"embedder"}, raised |-> TRUE]}
        ELSE { [result |-> ScoredRows(rows, threshold),
                touched |-> {"embedder", "vec_contexts"}, raised |-> FALSE] :
                 rows \in KnnRows(vec, q, limit) }

\* (variant) "except Exception: return []" around the connection and the query
similarity_search_SwallowError(en, storage_ok, vec, query_text, limit, threshold) ==
    IF ~en
    THEN {[result |-> << >>, touched |-> {}, raised |-> FALSE]}
    ELSE IF get_embedding_model(en) = None
    THEN {[result |-> << >>, touched |-> {}, raised |-> FALSE]}
    ELSE LET q == vec0_parse(json_dumps_tolist(Encode(query_text)))
         IN  IF ~storage_ok
             THEN {[result |-> << >>, touched |-> {"embedder"}, raised |-> FALSE]}
             ELSE { [result |-> ScoredRows(rows, threshold),
                     touched |-> {"embedder", "vec_contexts"}, raised |-> FALSE] :
                      rows \in KnnRows(vec, q, limit) }

\* every outcome of similarity_search: the returned list, what was used, and
\* whether the call left with an exception. storage_ok is whether
\* engine.raw_connection() and cursor.execute succeed; neither is inside an
\* "except", so their exception leaves the function ("finally" only closes
\* the connection).
similarity_search(en, storage_ok, vec, query_text, limit, threshold) ==
    IF ~en
    THEN {[result |-> << >>, touched |-> {}, raised |-> FALSE]}
    ELSE IF get_embedding_model(en) = None
    THEN {[result |-> << >>, touched |-> {}, raised |-> FALSE]}
    ELSE LET q == vec0_parse(json_dumps_tolist(Encode(query_text)))
         IN  IF ~storage_ok
             THEN {[result |-> << >>, touched |-> {"embedder"}, raised |-> TRUE]}
             ELSE { [result |-> ScoredRows(rows, threshold),
                     touched |-> {"embedder", "vec_contexts"}, raised |-> FALSE] :
                      rows \in KnnRows(vec, q, limit) }

----------------------------------------------------------------------------
(* The record store: table contexts (class ContextDB) *)

\* id = Column(Integer, primary_key=True): SQLite gives a new row the
\* largest rowid in the table plus one, so the id of a deleted last row
\* is given again
NextRowId(ctxs) ==
    IF ctxs = {} THEN 1 ELSE SetMax({c.id : c \in ctxs}) + 1

\* (variant) the query finds no record
FirstByKey_NotFound(ctxs, key) == None

\* db.query(ContextDB).filter(ContextDB.key == key).first()
FirstByKey(ctxs, key) ==
    IF \E c \in ctxs : c.key = key
    THEN Some(CHOOSE c \in ctxs : c.key = key)
    ELSE None

\* the connections are opened without PRAGMA foreign_keys=ON, so SQLite
\* does not enforce FOREIGN KEY ... ON DELETE CASCADE
ForeignKeysEnforced == FALSE

\* what deleting contexts row id does to context_vectors
CascadeDelete(cv, id) ==
    IF ForeignKeysEnforced
    THEN SelectSeq(cv, LAMBDA r : r.context_id # id)
    ELSE cv

----------------------------------------------------------------------------
(* Calls and their inputs *)

Keys == {"k1", "k2"}
\* the bodies pushed (ContextCreate without its key): content, summary,
\* context_metadata (a dictionary or None) and tags
PushInputs ==
    {[content |-> <<"a">>, summary |-> None,
      context_metadata |-> None, tags |-> << >>],
     [content |-> <<"b">>, summary |-> Some(<<"s">>),
      context_metadata |-> Some([priority |-> "high"]), tags |-> << <<"t">> >>]}
\* the query texts of the endpoints
Queries == {<< >>, <<" ">>, <<" ", "q">>}
EndpointLimits == {1, MaxLimit}
EndpointThresholds == {10}
Ids == 1..MaxId
\* the arrays store_embedding is called with directly: None, arrays of the
\* model's length and arrays of another length
StoredPoints == {1, 5}
Embeddings ==
    {None} \cup {Some([dim |-> EmbeddingDim, pt |-> p]) : p \in StoredPoints}
           \cup {Some([dim |-> EmbeddingDim - 1, pt |-> 5]), Some([dim |-> 3, pt |-> 1])}
\* the index and the inputs of a direct similarity_search
IndexedIds == 1..MaxIndexed
IndexedPoints == {1, 5, 19, 21, 25}
SearchQueries == {<<"q">>, <<"b">>}
Limits == 0..MaxLimit
Thresholds == {-5, 0, 10}

\* the last call: its name, its arguments, the record id it was about (0 for
\* none), its status, the (id, score) list of similarity_search, what it
\* returned, and the parts it used
Resp(op, args, id, status, similar, out, touched) ==
    [op |-> op, args |-> args, id |-> id, status |-> status,
     similar |-> similar, out |-> out, touched |-> touched]

NoResp == Resp("none", << >>, 0, "", << >>, << >>, {})

Init ==
    /\ enabled \in BOOLEAN
    /\ contexts = {}
    /\ context_vectors = << >>
    /\ vec_contexts = << >>
    /\ pushedEnabled = {}
    /\ inflight = {}
    /\ resp = NoResp

\* a process start: ENABLE_VECTOR_SEARCH is read from the environment, and
\* create_tables keeps the tables the database file already has
Restart ==
    /\ enabled' \in BOOLEAN
    /\ resp' = Resp("restart", << >>, 0, "", << >>, << >>, {})
    /\ UNCHANGED <<contexts, context_vectors, vec_contexts, pushedEnabled, inflight>>

----------------------------------------------------------------------------
(* backend/server.py *)

\* the row push_context writes for the body context: the row of its key
\* with the body's values, or a new row
PushRow(ctxs, context) ==
    LET existing == FirstByKey(ctxs, context.key)
    IN  [id |-> IF existing # None THEN existing[1].id ELSE NextRowId(ctxs),
         key |-> context.key, content |-> context.content,
         summary |-> context.summary,
         context_metadata |-> context.context_metadata,
         tags |-> context.tags]

\* push_context as a function of the tables: the tables after it, its
\* status and the object it returns. db.commit() writes the record; only
\* then is the embedding generated and stored. storage_ok is whether
\* store_embedding's connection and statements succeed; their exception is
\* not caught, so the response is a 500 and the record stays committed.
PushResult(en, storage_ok, ctxs, cv, vec, context) ==
    LET existing == FirstByKey(ctxs, context.key)
        row  == PushRow(ctxs, context)
        ctxs1 == IF existing # None
                 THEN (ctxs \ {existing[1]}) \cup {row}
                 ELSE ctxs \cup {row}
        embedding == generate_embedding(en, row.content, row.summary)
        st   == store_embedding(en, cv, vec, row.id, embedding)
        path == IF existing # None THEN {"update"} ELSE {"create"}
    IN  IF en /\ embedding # None /\ ~storage_ok
        THEN [contexts |-> ctxs1, cv |-> cv, vec |-> vec, status |-> "500",
              row |-> row, out |-> None, touched |-> path]
        ELSE [contexts |-> ctxs1, cv |-> st.cv, vec |-> st.vec, status |-> "200",
              row |-> row, out |-> Some(row), touched |-> path]

\* whether the vector storage works when a push reaches it: either, for a
\* push that reaches it (vector search enabled)
PushStorageOutcomes(en) == IF en THEN BOOLEAN ELSE {TRUE}

\* POST /api/contexts with the body context: what it does to the tables,
\* given the result r
PushTables(r) ==
    /\ r.row.id <= MaxId
    /\ enabled => Len(context_vectors) < MaxRows
    /\ contexts' = r.contexts
    /\ context_vectors' = r.cv
    /\ vec_contexts' = r.vec
    /\ pushedEnabled' = IF enabled THEN pushedEnabled \cup {r.row.id}
                                   ELSE pushedEnabled

\* POST /api/contexts, with the ContextCreate body context
push_context(context) ==
    /\ \E storage_ok \in PushStorageOutcomes(enabled) :
          LET r == PushResult(enabled, storage_ok, contexts, context_vectors,
                              vec_contexts, context)
          IN  /\ PushTables(r)
              /\ resp' = Resp("push_context", context, r.row.id, r.status,
                              << >>, r.out, r.touched)
    /\ UNCHANGED <<enabled, inflight>>

\* the handler of DELETE /api/contexts/{key}: the status it answers
DeleteStatus(key) == IF FirstByKey(contexts, key) = None THEN "404" ELSE "200"

\* the handler of DELETE /api/contexts/{key}: what it does to the tables.
\* Nothing for a key without a record (HTTPException 404); else db.delete
\* and db.commit.
DeleteTables(key) ==
    LET context == FirstByKey(contexts, key)
    IN  IF context = None
        THEN UNCHANGED <<contexts, context_vectors, vec_contexts, pushedEnabled>>
        ELSE /\ contexts' = contexts \ {context[1]}
             /\ context_vectors' = CascadeDelete(context_vectors, context[1].id)
             /\ pushedEnabled' = pushedEnabled \ {context[1].id}
             /\ UNCHANGED vec_contexts

\* the id of the record of key, 0 for none
IdOfKey(key) ==
    LET context == FirstByKey(contexts, key)
    IN  IF context = None THEN 0 ELSE context[1].id

\* DELETE /api/contexts/{key}
delete_context(key) ==
    /\ DeleteTables(key)
    /\ resp' = Resp("delete_context", [key |-> key], IdOfKey(key),
                    DeleteStatus(key), << >>, << >>, {})
    /\ UNCHANGED <<enabled, inflight>>

\* "if ctx.context_metadata is None: ctx.context_metadata = {}" and
\* "ctx.context_metadata['similarity_score'] = score": the dictionary of the
\* object afterwards
WithSimilarityScore(context_metadata, score) ==
    LET m == IF context_metadata = None THEN << >> ELSE context_metadata[1]
    IN  Some([k \in DOMAIN m \cup {"similarity_score"} |->
                 IF k = "similarity_score" THEN score ELSE m[k]])

\* (variant) the loop stops at the first id without a record
RECURSIVE Hydrate_StopAtMissing(_, _)
Hydrate_StopAtMissing(similar_ids, ctxs) ==
    IF similar_ids = << >> THEN << >>
    ELSE LET ctx_id == Head(similar_ids)[1]
             score  == Head(similar_ids)[2]
             found  == {c \in ctxs : c.id = ctx_id}
         IN  IF found = {} THEN << >>
             ELSE LET ctx == CHOOSE c \in found : TRUE
                  IN  <<[ctx EXCEPT !.context_metadata =
                                WithSimilarityScore(ctx.context_metadata, score)]>>
                      \o Hydrate_StopAtMissing(Tail(similar_ids), ctxs)

\* (variant) the objects in the order of their ids, as the query
\* "ContextDB.id.in_(context_ids)" may return them
RECURSIVE Hydrate_InRowOrder(_, _)
Hydrate_InRowOrder(similar_ids, ctxs) ==
    IF similar_ids = << >> THEN << >>
    ELSE LET ids    == {similar_ids[j][1] : j \in 1..Len(similar_ids)}
             ctx_id == CHOOSE i \in ids : \A j \in ids : i <= j
             at     == CHOOSE j \in 1..Len(similar_ids) : similar_ids[j][1] = ctx_id
             score  == similar_ids[at][2]
             rest   == SelectSeq(similar_ids, LAMBDA pair : pair[1] # ctx_id)
             found  == {c \in ctxs : c.id = ctx_id}
         IN  (IF found # {}
              THEN LET ctx == CHOOSE c \in found : TRUE
                   IN  <<[ctx EXCEPT !.context_metadata =
                                 WithSimilarityScore(ctx.context_metadata, score)]>>
              ELSE << >>)
             \o Hydrate_InRowOrder(rest, ctxs)

\* (variant) the score is written only into a dictionary that is there
RECURSIVE Hydrate_NoneStaysNone(_, _)
Hydrate_NoneStaysNone(similar_ids, ctxs) ==
    IF similar_ids = << >> THEN << >>
    ELSE LET ctx_id == Head(similar_ids)[1]
             score  == Head(similar_ids)[2]
             found  == {c \in ctxs : c.id = ctx_id}
         IN  (IF found # {}
              THEN LET ctx == CHOOSE c \in found : TRUE
                   IN  <<[ctx EXCEPT !.context_metadata =
                                 IF ctx.context_metadata = None THEN None
                                 ELSE WithSimilarityScore(ctx.context_metadata, score)]>>
              ELSE << >>)
             \o Hydrate_NoneStaysNone(Tail(similar_ids), ctxs)

\* the loop of semantic_search over similar_ids: the objects of the records
\* found (context_dict is keyed by id, so the order in which the query
\* returned them plays no part), in the order of similar_ids, each with its
\* score in its context_metadata; an id without a record is passed over
RECURSIVE Hydrate(_, _)
Hydrate(similar_ids, ctxs) ==
    IF similar_ids = << >> THEN << >>
    ELSE LET ctx_id == Head(similar_ids)[1]
             score  == Head(similar_ids)[2]
             found  == {c \in ctxs : c.id = ctx_id}
         IN  (IF found # {}
              THEN LET ctx == CHOOSE c \in found : TRUE
                   IN  <<[ctx EXCEPT !.context_metadata =
                                 WithSimilarityScore(ctx.context_metadata, score)]>>
              ELSE << >>)
             \o Hydrate(Tail(similar_ids), ctxs)

\* the objects of a list, as a set
Objects(out) == {out[j] : j \in 1..Len(out)}

\* (variant) "if not query" in place of "if not query.strip()"
semantic_search_NoStrip(en, storage_ok, ctxs, vec, query, limit, threshold) ==
    IF query = << >>
    THEN {[status |-> "400", similar |-> << >>, out |-> << >>, touched |-> {},
           session |-> {}]}
    ELSE { IF s.raised
           THEN [status |-> "500", similar |-> << >>, out |-> << >>,
                 touched |-> s.touched, session |-> {}]
           ELSE [status |-> "200", similar |-> s.result,
                 out |-> Hydrate(s.result, ctxs), touched |-> s.touched,
                 session |-> Objects(Hydrate(s.result, ctxs))] :
             s \in similarity_search(en, storage_ok, vec, query, limit, threshold) }

\* GET /api/contexts/search/semantic: every response it may give, with the
\* objects its Session holds changed at the end (session). An exception of
\* similarity_search is not caught: the response is a 500.
semantic_search(en, storage_ok, ctxs, vec, query, limit, threshold) ==
    IF Strip(query) = << >>
    THEN {[status |-> "400", similar |-> << >>, out |-> << >>, touched |-> {},
           session |-> {}]}
    ELSE { IF s.raised
           THEN [status |-> "500", similar |-> << >>, out |-> << >>,
                 touched |-> s.touched, session |-> {}]
           ELSE [status |-> "200", similar |-> s.result,
                 out |-> Hydrate(s.result, ctxs), touched |-> s.touched,
                 session |-> Objects(Hydrate(s.result, ctxs))] :
             s \in similarity_search(en, storage_ok, vec, query, limit, threshold) }

\* (variant) get_db with db.commit() before db.close(): the changed objects
\* are written over their rows
get_db_CommitOnExit(ctxs, session) ==
    {c \in ctxs : \A o \in session : o.id # c.id} \cup session

\* get_db, after the handler: "finally: db.close()". The handler has not
\* committed, so what its Session holds changed is dropped; table contexts
\* afterwards
get_db(ctxs, session) == ctxs

\* whether the vector storage works when a search reaches it: either, for a
\* search that reaches it (vector search enabled, query not blank)
StorageOutcomes(en, query) ==
    IF en /\ Strip(query) # << >> THEN BOOLEAN ELSE {TRUE}

SemanticSearch(query, limit, threshold) ==
    /\ \E storage_ok \in StorageOutcomes(enabled, query) :
         \E r \in semantic_search(enabled, storage_ok, contexts, vec_contexts,
                                  query, limit, threshold) :
            /\ resp' = Resp("semantic_search",
                            [query |-> query, limit |-> limit,
                             threshold |-> threshold, storage_ok |-> storage_ok],
                            0, r.status, r.similar, r.out, r.touched)
            /\ contexts' = get_db(contexts, r.session)
    /\ UNCHANGED <<enabled, context_vectors, vec_contexts, pushedEnabled, inflight>>

----------------------------------------------------------------------------
(* mcp_server/server.py *)

\* the dictionary search_contexts makes of one context of the response;
\* the model's scores are multiples of 0.1, which round(..., 3) keeps
Formatted(ctx) ==
    [key |-> ctx.key, content |-> ctx.content, summary |-> ctx.summary,
     tags |-> ctx.tags,
     priority |-> IF ctx.context_metadata # None
                     /\ "priority" \in DOMAIN ctx.context_metadata[1]
                  THEN Some(ctx.context_metadata[1].priority) ELSE None,
     similarity_score |-> IF ctx.context_metadata # None
                             /\ "similarity_score" \in DOMAIN ctx.context_metadata[1]
                          THEN ctx.context_metadata[1].similarity_score ELSE 0]

\* the search_contexts tool: every dictionary it may return ("contexts" is
\* out). response.raise_for_status() turns a 500 into httpx.HTTPError, which
\* the tool answers with success False.
search_contexts(en, storage_ok, ctxs, vec, query, limit, threshold) ==
    IF Strip(query) = << >>
    THEN {[status |-> "success=False", similar |-> << >>, out |-> << >>,
           touched |-> {}, session |-> {}]}
    ELSE { [status |-> IF r.status = "200" THEN "success=True" ELSE "success=False",
            similar |-> r.similar,
            out |-> IF r.status = "200"
                    THEN [j \in 1..Len(r.out) |-> Formatted(r.out[j])] ELSE << >>,
            touched |-> r.touched \cup {"backend"},
            session |-> r.session] :
             r \in semantic_search(en, storage_ok, ctxs, vec, Strip(query),
                                   limit, threshold) }

SearchContexts(query, limit, threshold) ==
    /\ \E storage_ok \in StorageOutcomes(enabled, query) :
         \E r \in search_contexts(enabled, storage_ok, contexts, vec_contexts,
                                  query, limit, threshold) :
            /\ resp' = Resp("search_contexts",
                            [query |-> query, limit |-> limit,
                             threshold |-> threshold, storage_ok |-> storage_ok],
                            0, r.status, r.similar, r.out, r.touched)
            /\ contexts' = get_db(contexts, r.session)
    /\ UNCHANGED <<enabled, context_vectors, vec_contexts, pushedEnabled, inflight>>

\* the delete_context tool: DELETE /api/contexts/{key} of the backend; a 404
\* is answered with success False and "No context found with key"
mcp_delete_context(key) ==
    /\ DeleteTables(key)
    /\ resp' = Resp("mcp_delete_context", [key |-> key], IdOfKey(key),
                    IF DeleteStatus(key) = "404" THEN "success=False"
                                                 ELSE "success=True",
                    << >>, << >>, {"backend"})
    /\ UNCHANGED <<enabled, inflight>>

----------------------------------------------------------------------------
(* The service: the HTTP endpoints and the MCP tools *)

Next ==
    \/ Restart
    \/ \E key \in Keys, in \in PushInputs :
          push_context([key |-> key] @@ in)
    \/ \E key \in Keys : delete_context(key)
    \/ \E key \in Keys : mcp_delete_context(key)
    \/ \E query \in Queries, limit \in EndpointLimits, threshold \in EndpointThresholds :
          SemanticSearch(query, limit, threshold)
    \/ \E query \in Queries, limit \in EndpointLimits, threshold \in EndpointThresholds :
          SearchContexts(query, limit, threshold)

Spec == Init /\ [][Next]_vars

----------------------------------------------------------------------------
(* The vector store called directly: store_embedding and get_embedding *)

StoreEmbedding(context_id, embedding) ==
    LET st == store_embedding(enabled, context_vectors, vec_contexts,
                              context_id, embedding)
    IN  /\ Len(context_vectors) < MaxRows
        /\ context_vectors' = st.cv
        /\ vec_contexts' = st.vec
        /\ resp' = Resp("store_embedding",
                        [context_id |-> context_id, embedding |-> embedding],
                        context_id, st.status, << >>, << >>, {})
        /\ UNCHANGED <<enabled, contexts, pushedEnabled, inflight>>

\* the tables as the connection of call c has them: the committed rows and
\* the inserts it has made since its transaction began
OwnView(c) ==
    LET e == c.embedding[1]
    IN  [cv  |-> IF c.pc \in {"cv", "vec"}
                 THEN InsertContextVector(context_vectors, c.context_id, tobytes(e))
                 ELSE context_vectors,
         vec |-> IF c.pc = "vec"
                 THEN InsertVecContext(vec_contexts, c.context_id,
                                       vec0_parse(json_dumps_tolist(e)))
                 ELSE vec_contexts]

\* the calls between their first insert and their commit: SQLite admits one
\* write transaction at a time
Writers == {c \in inflight : c.pc \in {"cv", "vec"}}

\* (variant) a reader sees the inserts of an open transaction
ReaderView_Uncommitted(committed, open) ==
    IF open = {} THEN committed ELSE CHOOSE t \in open : TRUE

\* what a connection of its own (engine.raw_connection() of get_embedding
\* and of similarity_search) reads while the transactions of set open have
\* not reached raw_conn.commit(): the committed rows
ReaderView(committed, open) == committed

\* the tables a reader sees now
Seen ==
    ReaderView([cv |-> context_vectors, vec |-> vec_contexts],
               {OwnView(c) : c \in Writers})

GetEmbedding(context_id) ==
    /\ resp' = Resp("get_embedding", [context_id |-> context_id], context_id,
                    "returned", << >>,
                    get_embedding(enabled, Seen.cv, context_id), {})
    /\ UNCHANGED <<enabled, contexts, context_vectors, vec_contexts, pushedEnabled,
                   inflight>>

NextStore ==
    \/ Restart
    \/ \E context_id \in Ids, embedding \in Embeddings :
          StoreEmbedding(context_id, embedding)
    \/ \E context_id \in Ids : GetEmbedding(context_id)

SpecStore == Init /\ [][NextStore]_vars

----------------------------------------------------------------------------
(* similarity_search called directly on an index of given vectors *)

\* the tables after store_embedding(i, index[i]) for the ids of index in
\* ascending order, starting from tables t
RECURSIVE StoreAll(_, _, _)
StoreAll(t, index, ids) ==
    IF ids = {} THEN t
    ELSE LET i  == CHOOSE x \in ids : \A y \in ids : x <= y
             st == store_embedding(TRUE, t.cv, t.vec, i, Some(index[i]))
         IN  StoreAll([cv |-> st.cv, vec |-> st.vec], index, ids \ {i})

InitSearch ==
    /\ enabled \in BOOLEAN
    /\ contexts = {}
    /\ pushedEnabled = {}
    /\ inflight = {}
    /\ resp = NoResp
    /\ \E S \in SUBSET IndexedIds :
         \E index \in [S -> {[dim |-> EmbeddingDim, pt |-> p] : p \in IndexedPoints}] :
            LET t == StoreAll([cv |-> << >>, vec |-> << >>], index, S)
            IN  /\ context_vectors = t.cv
                /\ vec_contexts = t.vec

\* one call on the index drawn: the call changes no table, so a second call
\* from the same tables has the same outcomes
SimilaritySearch(query_text, limit, threshold) ==
    /\ resp = NoResp
    /\ \E s \in similarity_search(enabled, TRUE, vec_contexts, query_text, limit, threshold) :
          resp' = Resp("similarity_search",
                       [query |-> query_text, limit |-> limit, threshold |-> threshold],
                       0, "returned", s.result, << >>, s.touched)
    /\ UNCHANGED <<enabled, contexts, context_vectors, vec_contexts, pushedEnabled,
                   inflight>>

NextSearch ==
    \E query_text \in SearchQueries, limit \in Limits, threshold \in Thresholds :
        SimilaritySearch(query_text, limit, threshold)

SpecSearch == InitSearch /\ [][NextSearch]_vars

----------------------------------------------------------------------------
(* Properties of the vector store (SpecStore) *)

\* the rows of context_vectors for a record id
RowsFor(cv, context_id) == {i \in 1..Len(cv) : cv[i].context_id = context_id}

\* what store_embedding leaves in vec_contexts for an array e
Indexed(e) == vec0_parse(json_dumps_tolist(e))

\* an array of another length than the model's
WrongLength(embedding) == embedding # None /\ embedding[1].dim # EmbeddingDim

\* C1: last write wins, without duplication. After store_embedding(id, v)
\* has stored v, get_embedding(id) returns v, context_vectors holds exactly
\* one row for id and vec_contexts holds v for id.
C1_LastWriteWins ==
    (resp.op = "store_embedding" /\ resp.status = "stored") =>
        LET v == resp.args.embedding[1]
        IN  /\ get_embedding(enabled, context_vectors, resp.id) = Some(v)
            /\ Cardinality(RowsFor(context_vectors, resp.id)) = 1
            /\ resp.id \in DOMAIN vec_contexts
            /\ vec_contexts[resp.id] = Indexed(v)

\* C10 as claimed: store_embedding with an array of another length than 384
\* always fails with a dimension-mismatch error and changes neither table.
C10_WrongLengthAlwaysFails ==
    [][(resp'.op = "store_embedding" /\ resp' # resp /\ WrongLength(resp'.args.embedding)) =>
          /\ resp'.status = "DimensionMismatch"
          /\ UNCHANGED <<context_vectors, vec_contexts>>]_vars

\* C10, amended: with vector search enabled, store_embedding with an array of
\* another length than 384 fails with a dimension-mismatch error; enabled or
\* not, the call changes neither context_vectors nor vec_contexts. With
\* vector search disabled it returns without an error.
C10_WrongLengthFailsWhenEnabled ==
    [][(resp'.op = "store_embedding" /\ resp' # resp /\ WrongLength(resp'.args.embedding)) =>
          /\ resp'.status = IF enabled THEN "DimensionMismatch" ELSE "skipped"
          /\ UNCHANGED <<context_vectors, vec_contexts>>]_vars

\* C10, its case: a wrong-length array was refused for an id that has a
\* stored vector
C10_Witness ==
    /\ resp.op = "store_embedding"
    /\ WrongLength(resp.args.embedding)
    /\ resp.status = "DimensionMismatch"
    /\ RowsFor(context_vectors, resp.id) # {}
    /\ resp.id \in DOMAIN vec_contexts

----------------------------------------------------------------------------
(* Properties of similarity_search (SpecSearch) *)

IsSearch == resp.op = "similarity_search"

\* the score max(0, 2 - d) of indexed id i for the query text
RefScore(i, query_text) ==
    Max(0, ScoreTop - Distance(vec_contexts[i], Indexed(Encode(query_text))))

\* the ids a list of (id, score) pairs names
IdsOf(pairs) == {pairs[j][1] : j \in 1..Len(pairs)}

\* C5: similarity_search returns at most limit pairs (limit >= 0), with
\* pairwise distinct ids, each with a score >= threshold.
C5_AtMostKAboveThreshold ==
    IsSearch =>
        /\ Len(resp.similar) <= resp.args.limit
        /\ \A a, b \in 1..Len(resp.similar) :
              a # b => resp.similar[a][1] # resp.similar[b][1]
        /\ \A a \in 1..Len(resp.similar) :
              resp.similar[a][2] >= resp.args.threshold

\* C5, its case: the limit cut the list, though more vectors are indexed and
\* one of them is below the threshold
C5_Witness ==
    /\ IsSearch /\ enabled
    /\ resp.args.limit >= 2
    /\ Len(resp.similar) = resp.args.limit
    /\ Cardinality(DOMAIN vec_contexts) > resp.args.limit
    /\ \E i \in DOMAIN vec_contexts :
          RefScore(i, resp.args.query) < resp.args.threshold

Qualifying(query_text, threshold) ==
    {i \in DOMAIN vec_contexts : RefScore(i, query_text) >= threshold}

\* a list is a result of the reference query: the first limit entries of
\* all qualifying (id, score), sorted by descending score
IsReferenceResult(pairs, query_text, limit, threshold) ==
    LET Q == Qualifying(query_text, threshold)
    IN  /\ Len(pairs) = Min(limit, Cardinality(Q))
        /\ IdsOf(pairs) \subseteq Q
        /\ \A a, b \in 1..Len(pairs) : a < b => pairs[a][1] # pairs[b][1]
        /\ \A a \in 1..Len(pairs) : pairs[a][2] = RefScore(pairs[a][1], query_text)
        /\ \A a, b \in 1..Len(pairs) : a < b => pairs[a][2] >= pairs[b][2]
        /\ \A i \in Q \ IdsOf(pairs) :
              \A a \in 1..Len(pairs) : pairs[a][2] >= RefScore(i, query_text)

\* C7: with vector search enabled, similarity_search returns a result of the
\* reference query: the first limit entries of all indexed (id, score) with
\* score = max(0, 2 - d) >= threshold, sorted by descending score.
C7_EqualsReferenceQuery ==
    (IsSearch /\ enabled) =>
        IsReferenceResult(resp.similar, resp.args.query, resp.args.limit,
                          resp.args.threshold)

\* the scenario of C7: ids 1, 2, 3 at distances 0.1, 0.5, 1.9, limit 2,
\* threshold 1.0 give [(1, 1.9), (2, 1.5)]
C7_ScenarioHolds ==
    (/\ IsSearch /\ enabled
     /\ DOMAIN vec_contexts = {1, 2, 3}
     /\ vec_contexts[1].pt = 1 /\ vec_contexts[2].pt = 5 /\ vec_contexts[3].pt = 19
     /\ resp.args.query = <<"q">>
     /\ resp.args.limit = 2 /\ resp.args.threshold = 10)
        => resp.similar = << <<1, 19>>, <<2, 15>> >>

----------------------------------------------------------------------------
(* Properties of the service (Spec) *)

\* the ids of the records in table contexts
LiveIds == {c.id : c \in contexts}

\* a vector is stored for a record id, in either table
HasVector(i) == RowsFor(context_vectors, i) # {} \/ i \in DOMAIN vec_contexts

\* some similarity_search of the service's inputs may return id i
SearchMayReturn(i) ==
    \E query \in Queries, limit \in EndpointLimits, threshold \in EndpointThresholds :
        \E s \in similarity_search(enabled, TRUE, vec_contexts, query, limit, threshold) :
            i \in IdsOf(s.result)

\* C2: deleting a record removes its vector. In every state in which id i has
\* no record (it was deleted and not pushed again), get_embedding(i) returns
\* None and no similarity_search returns i.
C2_DeleteRemovesVector ==
    \A i \in Ids :
        i \notin LiveIds =>
            /\ get_embedding(enabled, context_vectors, i) = None
            /\ ~SearchMayReturn(i)

\* C3: between calls, a vector exists for a record id if and only if a
\* record with that id exists and was pushed while vector search was enabled.
C3_VectorIffPushedWhileEnabled ==
    \A i \in Ids : HasVector(i) <=> (i \in LiveIds /\ i \in pushedEnabled)

\* C4: with vector search enabled, after a push_context (on the create or the
\* update path) the vector stored for the record, in context_vectors as
\* get_embedding reads it and in vec_contexts, is the embedding of the
\* record's current content and summary.
C4_VectorIsCurrentEmbedding ==
    (resp.op = "push_context" /\ resp.status = "200" /\ enabled) =>
        LET row == resp.out[1]
            e   == generate_embedding(enabled, row.content, row.summary)
        IN  /\ row \in contexts
            /\ get_embedding(enabled, context_vectors, row.id) = e
            /\ row.id \in DOMAIN vec_contexts
            /\ vec_contexts[row.id] = Indexed(e[1])

IsEndpointSearch == resp.op \in {"semantic_search", "search_contexts"}

\* the query text of the last search is empty or all whitespace
BlankQuery == Strip(resp.args.query) = << >>

\* C8: a search whose query text is empty or all whitespace is rejected,
\* with HTTP 400 by semantic_search and with success=False by the
\* search_contexts tool, before the embedder or the vector store is used
\* (the tool does not call the backend either), with vector search enabled
\* or disabled.
C8_BlankQueryRejected ==
    (IsEndpointSearch /\ BlankQuery) =>
        /\ resp.status = IF resp.op = "semantic_search" THEN "400" ELSE "success=False"
        /\ resp.touched = {}
        /\ resp.similar = << >>
        /\ resp.out = << >>

\* C8, its case: a whitespace-only query was rejected by the endpoint while
\* vector search was enabled and a vector was indexed
C8_Witness ==
    /\ resp.op = "semantic_search"
    /\ resp.args.query = <<" ">>
    /\ resp.status = "400"
    /\ enabled
    /\ vec_contexts # << >>

\* C9: with vector search disabled, a search with a non-blank query returns
\* an empty list without an error (HTTP 200, success=True) and without the
\* embedder or vec_contexts being used, whatever the tables hold.
C9_DisabledSearchIsEmpty ==
    (IsEndpointSearch /\ ~BlankQuery /\ ~enabled) =>
        /\ resp.status = IF resp.op = "semantic_search" THEN "200" ELSE "success=True"
        /\ resp.similar = << >>
        /\ resp.out = << >>
        /\ "vec_contexts" \notin resp.touched
        /\ "embedder" \notin resp.touched

\* C9, its case: a search ran with vector search disabled while the index
\* held the vector of a live record
C9_Witness ==
    /\ resp.op = "semantic_search"
    /\ ~BlankQuery
    /\ ~enabled
    /\ resp.status = "200"
    /\ \E i \in LiveIds : i \in DOMAIN vec_contexts

----------------------------------------------------------------------------
(* Properties of delete (Spec) *)

\* C11: delete is an idempotent no-op on absence. After a delete of a
\* record, get_embedding of its id returns None; a delete of a key that has
\* no record (deleted before, or never pushed) is not an error (not a 404,
\* not success False) and changes no table.
C11_DeleteIdempotentNoOp ==
    [][(resp'.op \in {"delete_context", "mcp_delete_context"} /\ resp' # resp) =>
          /\ resp'.status \in {"200", "success=True"}
          /\ resp'.id # 0 =>
                get_embedding(enabled', context_vectors', resp'.id) = None
          /\ resp'.id = 0 =>
                UNCHANGED <<contexts, context_vectors, vec_contexts>>]_vars

----------------------------------------------------------------------------
(* Properties of semantic_search (Spec) *)

\* the ids of the objects of a response, in their order
OutIds(out) == [j \in 1..Len(out) |-> out[j].id]

\* C12: an id that similarity_search returns and that has no record (a
\* stale vector) is passed over: semantic_search answers 200 whenever the
\* query is not blank and the vector storage works (or vector search is
\* disabled), and its response holds exactly the records of the ids
\* returned that have a record.
C12_StaleIdSkipped ==
    resp.op = "semantic_search" =>
        /\ (~BlankQuery /\ (resp.args.storage_ok \/ ~enabled)) => resp.status = "200"
        /\ resp.status = "200" =>
              /\ {resp.out[j].id : j \in 1..Len(resp.out)} =
                    IdsOf(resp.similar) \cap LiveIds
              /\ \A j \in 1..Len(resp.out) :
                    \E c \in contexts :
                        /\ c.id = resp.out[j].id
                        /\ c.key = resp.out[j].key
                        /\ c.content = resp.out[j].content

\* C12, its case: similarity_search returned a stale id ahead of the id of
\* a record, and the response holds that record
C12_Witness ==
    /\ resp.op = "semantic_search"
    /\ resp.status = "200"
    /\ Len(resp.similar) = 2
    /\ resp.similar[1][1] \notin LiveIds
    /\ resp.similar[2][1] \in LiveIds
    /\ Len(resp.out) = 1
    /\ resp.out[1].id = resp.similar[2][1]

\* the place of a record id in a list of (id, score) pairs
PosIn(pairs, id) == CHOOSE j \in 1..Len(pairs) : pairs[j][1] = id

\* C13: the records of a semantic_search response come in the relative
\* order of their ids in the list similarity_search returned (which is by
\* descending score): of two records, the one whose id is earlier in that
\* list is earlier in the response, and no record is followed by one with a
\* larger score.
C13_OrderOfSimilarIds ==
    (resp.op = "semantic_search" /\ resp.status = "200") =>
        \A a, b \in 1..Len(resp.out) :
            a < b =>
                /\ PosIn(resp.similar, resp.out[a].id) < PosIn(resp.similar, resp.out[b].id)
                /\ resp.similar[PosIn(resp.similar, resp.out[a].id)][2] >=
                      resp.similar[PosIn(resp.similar, resp.out[b].id)][2]

\* C13, its case: two records in the response, the one of the larger id
\* first because its score is larger
C13_Witness ==
    /\ resp.op = "semantic_search"
    /\ resp.status = "200"
    /\ Len(resp.out) = 2
    /\ OutIds(resp.out) = <<2, 1>>
    /\ resp.similar[1][2] > resp.similar[2][2]

\* the dictionary stored for a record, {} for None
StoredDict(c) == IF c.context_metadata = None THEN << >> ELSE c.context_metadata[1]

\* C14: every record of a semantic_search response carries, in its
\* context_metadata, a similarity_score equal to the score similarity_search
\* returned for its id, also when the stored context_metadata is None; the
\* other keys of the stored context_metadata are returned with their values,
\* and no further key is added.
C14_ScoreInMetadata ==
    (resp.op = "semantic_search" /\ resp.status = "200") =>
        \A j \in 1..Len(resp.out) :
            LET o == resp.out[j]
                c == CHOOSE x \in contexts : x.id = o.id
                m == o.context_metadata
            IN  /\ m # None
                /\ "similarity_score" \in DOMAIN m[1]
                /\ m[1].similarity_score = resp.similar[PosIn(resp.similar, o.id)][2]
                /\ DOMAIN m[1] = DOMAIN StoredDict(c) \cup {"similarity_score"}
                /\ \A k \in DOMAIN StoredDict(c) \ {"similarity_score"} :
                      m[1][k] = StoredDict(c)[k]

\* C14, its case: the response holds a record stored with context_metadata
\* None and a record stored with another key, with different scores
C14_Witness ==
    /\ resp.op = "semantic_search"
    /\ resp.status = "200"
    /\ Len(resp.out) = 2
    /\ \E c \in contexts : c.id = resp.out[1].id /\ c.context_metadata = None
    /\ \E c \in contexts : c.id = resp.out[2].id /\ c.context_metadata # None
    /\ resp.out[2].context_metadata[1].priority = "high"
    /\ resp.out[1].context_metadata[1].similarity_score #
          resp.out[2].context_metadata[1].similarity_score

\* C15: a search is read-only. A step of semantic_search or of the
\* search_contexts tool, whatever its query, limit and threshold and whatever
\* its answer (200, 400 or 500), leaves tables contexts, context_vectors and
\* vec_contexts as they were; no stored context_metadata gains a
\* similarity_score.
C15_SearchIsReadOnly ==
    [][(resp'.op \in {"semantic_search", "search_contexts"}) =>
          /\ UNCHANGED <<contexts, context_vectors, vec_contexts>>
          /\ \A c \in contexts' :
                "similarity_score" \notin DOMAIN StoredDict(c)]_vars

\* C15, its case: a search has returned a record whose stored
\* context_metadata is None, with a score in the response, and a record
\* whose stored context_metadata has another key
C15_Witness ==
    /\ resp.op \in {"semantic_search", "search_contexts"}
    /\ resp.status \in {"200", "success=True"}
    /\ Len(resp.out) = 2
    /\ \E c \in contexts : c.context_metadata = None
    /\ \E c \in contexts : c.context_metadata # None
    /\ \A c \in contexts : c.id \in IdsOf(resp.similar)

----------------------------------------------------------------------------
(* Properties of store_embedding as one transaction (SpecStore) *)

\* C18: store_embedding is all-or-nothing. A call that fails (here: vec0
\* refuses the array at the insert into vec_contexts, after the insert into
\* context_vectors) changes neither table; a call that stores writes both:
\* a row (id, bytes of the array) is added to context_vectors and
\* vec_contexts holds the array for the id, every other entry staying as it
\* was. A call that returns at once (vector search disabled, or no array)
\* changes neither table.
C18_StoreAllOrNothing ==
    [][(/\ resp'.op = "store_embedding"
        /\ \/ resp' # resp
           \/ context_vectors' # context_vectors
           \/ vec_contexts' # vec_contexts) =>
          IF resp'.status = "stored"
          THEN LET e == resp'.args.embedding[1]
               IN  /\ Len(context_vectors') = Len(context_vectors) + 1
                   /\ SubSeq(context_vectors', 1, Len(context_vectors)) = context_vectors
                   /\ context_vectors'[Len(context_vectors')].context_id = resp'.id
                   /\ frombuffer(context_vectors'[Len(context_vectors')].embedding) = e
                   /\ DOMAIN vec_contexts' = DOMAIN vec_contexts \cup {resp'.id}
                   /\ vec_contexts'[resp'.id] = Indexed(e)
                   /\ \A i \in DOMAIN vec_contexts \ {resp'.id} :
                         vec_contexts'[i] = vec_contexts[i]
          ELSE /\ resp'.status \in {"DimensionMismatch", "skipped"}
               /\ UNCHANGED <<context_vectors, vec_contexts>>]_vars

\* C18, its case: a call has failed at the insert into vec_contexts for an
\* id while both tables hold the vector of an earlier call for it, and
\* only that
C18_Witness ==
    /\ resp.op = "store_embedding"
    /\ resp.status = "DimensionMismatch"
    /\ enabled
    /\ Cardinality(RowsFor(context_vectors, resp.id)) = 1
    /\ resp.id \in DOMAIN vec_contexts
    /\ get_embedding(enabled, context_vectors, resp.id) # resp.args.embedding

----------------------------------------------------------------------------
(* Properties of the record store (Spec) *)

\* the records of a key
OfKey(ctxs, key) == {c \in ctxs : c.key = key}

\* C20: after any sequence of push_context and delete_context calls there
\* is at most one record per key. A push of a key that has a record keeps
\* the record's id and sets its content, summary and tags to the pushed
\* values, without a second record; a push of a new key adds exactly one
\* record, with the pushed values. The records of the other keys stay as
\* they were.
C20_OneRecordPerKey ==
    [][/\ \A key \in Keys : Cardinality(OfKey(contexts', key)) <= 1
       /\ resp'.op = "push_context" =>
             LET key == resp'.args.key
                 now == CHOOSE c \in OfKey(contexts', key) : TRUE
             IN  /\ Cardinality(OfKey(contexts', key)) = 1
                 /\ now.content = resp'.args.content
                 /\ now.summary = resp'.args.summary
                 /\ now.tags = resp'.args.tags
                 /\ contexts' \ {now} = contexts \ OfKey(contexts, key)
                 /\ IF OfKey(contexts, key) # {}
                    THEN /\ \A c \in OfKey(contexts, key) : now.id = c.id
                         /\ Cardinality(contexts') = Cardinality(contexts)
                    ELSE /\ Cardinality(contexts') = Cardinality(contexts) + 1
                         /\ \A c \in contexts : c.id # now.id]_vars

\* C20, its case: a push has taken the update path on the record of a key
\* pushed before with another content (context_vectors holds the bytes of
\* both contents for its id), with a record of another key beside it
C20_Witness ==
    /\ resp.op = "push_context"
    /\ "update" \in resp.touched
    /\ Len(context_vectors) = 2
    /\ context_vectors[1].context_id = resp.id
    /\ context_vectors[2].context_id = resp.id
    /\ context_vectors[1].embedding # context_vectors[2].embedding
    /\ Cardinality(contexts) = 2

----------------------------------------------------------------------------
(* Properties of a search when the vector storage fails (Spec) *)

\* the query text the backend was given by the last search
BackendQuery ==
    IF resp.op = "search_contexts" THEN Strip(resp.args.query) ELSE resp.args.query

\* no indexed vector passes the threshold of the last search
NoMatchAboveThreshold ==
    \A i \in DOMAIN vec_contexts :
        ScoreTop - Distance(vec_contexts[i], Indexed(Encode(BackendQuery)))
            < resp.args.threshold

----------------------------------------------------------------------------
(* Requests whose steps interleave: several connections on one database.  *)
(* push_context commits the record on its Session and then calls          *)
(* store_embedding, which is a transaction of its own on another          *)
(* connection; nothing but the database's write lock orders the steps of  *)
(* two requests.                                                          *)

\* the bodies the interleaved requests push: both contents for key k1, on
\* which they meet, and one for key k2
ConcurrentPushes ==
    {[key |-> "k1"] @@ in : in \in PushInputs}
        \cup {[key |-> "k2"] @@ in : in \in {x \in PushInputs : x.summary = None}}

InitConcurrent ==
    /\ enabled = TRUE
    /\ contexts = {}
    /\ context_vectors = << >>
    /\ vec_contexts = << >>
    /\ pushedEnabled = {}
    /\ inflight = {}
    /\ resp = NoResp

\* push_context up to the call of store_embedding: the record is written
\* and committed, the embedding of the refreshed record is generated. No
\* call has returned at a step of a request under way: resp is NoResp. The
\* calls under way differ in their id, their array or their position.
PushRecord(context) ==
    LET existing == FirstByKey(contexts, context.key)
        id   == IF existing # None THEN existing[1].id ELSE NextRowId(contexts)
        row  == [id |-> id, key |-> context.key, content |-> context.content,
                 summary |-> context.summary,
                 context_metadata |-> context.context_metadata,
                 tags |-> context.tags]
        embedding == generate_embedding(enabled, row.content, row.summary)
        call == [context_id |-> id, embedding |-> embedding, pc |-> "called"]
    IN  /\ id <= MaxId
        /\ Cardinality(inflight) < MaxCalls
        /\ call \notin inflight
        /\ Writers = {}
        /\ contexts' = IF existing # None
                       THEN (contexts \ {existing[1]}) \cup {row}
                       ELSE contexts \cup {row}
        /\ pushedEnabled' = pushedEnabled \cup {id}
        /\ inflight' = inflight \cup {call}
        /\ resp' = NoResp
        /\ UNCHANGED <<enabled, context_vectors, vec_contexts>>

\* store_embedding, first execute: the transaction begins with the insert
\* into context_vectors
InsertCV(c) ==
    /\ c.pc = "called"
    /\ Writers = {}
    /\ Len(context_vectors) < MaxRows
    /\ inflight' = (inflight \ {c}) \cup {[c EXCEPT !.pc = "cv"]}
    /\ resp' = NoResp
    /\ UNCHANGED <<enabled, contexts, context_vectors, vec_contexts, pushedEnabled>>

\* store_embedding, first execute, while another transaction holds the
\* write lock past the connection's timeout: sqlite3.OperationalError
\* (database is locked) leaves the call with nothing written
InsertLocked(c) ==
    /\ c.pc = "called"
    /\ Writers # {}
    /\ inflight' = inflight \ {c}
    /\ resp' = NoResp
    /\ UNCHANGED <<enabled, contexts, context_vectors, vec_contexts, pushedEnabled>>

\* store_embedding, second execute: the insert into vec_contexts
InsertVec(c) ==
    /\ c.pc = "cv"
    /\ inflight' = (inflight \ {c}) \cup {[c EXCEPT !.pc = "vec"]}
    /\ resp' = NoResp
    /\ UNCHANGED <<enabled, contexts, context_vectors, vec_contexts, pushedEnabled>>

\* store_embedding, raw_conn.commit(): both inserts reach the tables
Commit(c) ==
    LET st == store_embedding(enabled, context_vectors, vec_contexts,
                              c.context_id, c.embedding)
    IN  /\ c.pc = "vec"
        /\ context_vectors' = st.cv
        /\ vec_contexts' = st.vec
        /\ inflight' = inflight \ {c}
        /\ resp' = NoResp
        /\ UNCHANGED <<enabled, contexts, pushedEnabled>>

\* delete_context, whole: one commit on the handler's Session
DeleteRecord(key) ==
    /\ Writers = {}
    /\ DeleteTables(key)
    /\ resp' = NoResp
    /\ UNCHANGED <<enabled, inflight>>

\* similarity_search by a reader
ReadSearch(query_text) ==
    /\ \E s \in similarity_search(enabled, TRUE, Seen.vec, query_text, MaxLimit, 0) :
          resp' = Resp("similarity_search",
                       [query |-> query_text, limit |-> MaxLimit, threshold |-> 0],
                       0, "returned", s.result, << >>, s.touched)
    /\ UNCHANGED <<enabled, contexts, context_vectors, vec_contexts, pushedEnabled,
                   inflight>>

NextConcurrent ==
    \/ \E context \in ConcurrentPushes : PushRecord(context)
    \/ \E c \in inflight : InsertCV(c)
    \/ \E c \in inflight : InsertLocked(c)
    \/ \E c \in inflight : InsertVec(c)
    \/ \E c \in inflight : Commit(c)
    \/ \E key \in Keys : DeleteRecord(key)
    \/ \E context_id \in Ids : GetEmbedding(context_id)
    \/ ReadSearch(<<"q">>)

SpecConcurrent == InitConcurrent /\ [][NextConcurrent]_vars

----------------------------------------------------------------------------
(* Properties of interleaved requests (SpecConcurrent) *)

\* the newest row of context_vectors for a record id
LastRowFor(cv, i) ==
    cv[CHOOSE a \in RowsFor(cv, i) : \A b \in RowsFor(cv, i) : b <= a]

\* C17: a reader (get_embedding, similarity_search) that runs while
\* store_embedding is under way for a record id sees the tables either as
\* they were before the call or as they are after it, never with only one
\* of context_vectors and vec_contexts written: in what a reader sees, an
\* id has a row in context_vectors exactly if it has one in vec_contexts,
\* and the newest row of context_vectors for it holds the array that
\* vec_contexts holds.
C17_ReadersSeeBothOrNeither ==
    \A i \in Ids :
        /\ RowsFor(Seen.cv, i) # {} <=> i \in DOMAIN Seen.vec
        /\ i \in DOMAIN Seen.vec =>
              Indexed(frombuffer(LastRowFor(Seen.cv, i).embedding)) = Seen.vec[i]

\* C17, its case: get_embedding has returned the old array for an id while
\* a store_embedding of another array for it stood between its insert into
\* context_vectors and its commit
C17_Witness ==
    /\ resp.op = "get_embedding"
    /\ resp.out # None
    /\ \E c \in inflight :
          /\ c.pc \in {"cv", "vec"}
          /\ c.context_id = resp.id
          /\ c.embedding # resp.out

\* no vector is left, in either table, for an id without a record
NoVectorForDeleted == \A i \in Ids \ LiveIds : ~HasVector(i)

\* the vector indexed for a record is the embedding of the record's content
\* and summary
VectorOfFinalContent ==
    \A c \in contexts :
        c.id \in DOMAIN vec_contexts =>
            vec_contexts[c.id] =
                Indexed(generate_embedding(enabled, c.content, c.summary)[1])

\* C16: push and delete requests on one record are serialized with
\* last-write-wins. Once no request is under way, the records and vectors
\* are those of the requests run one after another in some order: no vector
\* is left for a record that was deleted, and the vector indexed for a
\* record is the embedding of the record's content and summary.
C16_SerializedLastWriteWins ==
    inflight = {} => (NoVectorForDeleted /\ VectorOfFinalContent)

----------------------------------------------------------------------------
(* Properties of the score (SpecSearch) *)

\* the distance of indexed id i from the query text
DistanceOf(i, query_text) ==
    Distance(vec_contexts[i], Indexed(Encode(query_text)))

----------------------------------------------------------------------------
(* Properties of a push that fails (Spec) *)

\* C24: push_context is atomic across the record and its vector. A push
\* whose embedding cannot be stored (the response is a 500) leaves table
\* contexts as it was before the push: no new record, no changed content.
C24_FailedPushChangesNothing ==
    [][(resp'.op = "push_context" /\ resp'.status = "500") =>
          contexts' = contexts]_vars

\* C25: a record never inherits another record's vector. After a
\* push_context that creates a record (also one that takes the id of a
\* deleted record), the vector get_embedding returns for the record's id and
\* the vector similarity_search scores for it are the embedding of this
\* record; a record created while vector search is disabled has no vector.
C25_NewRecordOwnVector ==
    (resp.op = "push_context" /\ resp.status = "200" /\ resp.touched = {"create"}) =>
        LET row == resp.out[1]
            e   == generate_embedding(TRUE, row.content, row.summary)
        IN  IF enabled
            THEN /\ get_embedding(TRUE, context_vectors, row.id) = e
                 /\ row.id \in DOMAIN vec_contexts
                 /\ vec_contexts[row.id] = Indexed(e[1])
            ELSE ~HasVector(row.id)

----------------------------------------------------------------------------
(* The two vector tables as one store (SpecStore) *)

\* the ids with a row in context_vectors
StoredIds(cv) == {cv[i].context_id : i \in 1..Len(cv)}

\* C26: context_vectors and vec_contexts are one logical store. In every
\* committed state the ids with a row in context_vectors are the ids with a
\* row in vec_contexts, and for each such id the vector get_embedding
\* returns is the vector similarity_search scores.
C26_TablesAreOneStore ==
    /\ StoredIds(context_vectors) = DOMAIN vec_contexts
    /\ enabled =>
          \A i \in DOMAIN vec_contexts :
              LET e == get_embedding(enabled, context_vectors, i)
              IN  e # None /\ Indexed(e[1]) = vec_contexts[i]

----------------------------------------------------------------------------
(* Completeness of semantic_search (Spec) *)

\* the ids of the existing records whose indexed vector passes the
\* threshold of a query
LiveQualifying(query_text, threshold) ==
    {i \in LiveIds \cap DOMAIN vec_contexts :
        ScoreTop - DistanceOf(i, query_text) >= threshold}

\* C27: semantic_search is complete with respect to live records. With
\* vector search enabled, a search answered 200 returns min(limit, number of
\* existing qualifying records) records, the best scoring ones: a vector
\* whose record is gone never takes the place of a live record.
C27_CompleteOverLiveRecords ==
    (resp.op = "semantic_search" /\ resp.status = "200" /\ enabled) =>
        LET Q == LiveQualifying(resp.args.query, resp.args.threshold)
            R == {resp.out[j].id : j \in 1..Len(resp.out)}
        IN  /\ Len(resp.out) = Min(resp.args.limit, Cardinality(Q))
            /\ R \subseteq Q
            /\ \A i \in Q \ R, r \in R :
                  DistanceOf(r, resp.args.query) <= DistanceOf(i, resp.args.query)

----------------------------------------------------------------------------
(* summarize_content of the MCP server (SpecSummarize) *)

\* the longest content summarized
MaxContent == 8

\* s[:n] for n >= 0
Prefix(s, n) == SubSeq(s, 1, Min(n, Len(s)))

\* s.rfind(c): the index, from 0, of the last c in s, or -1
RECURSIVE rfind(_, _)
rfind(s, c) ==
    IF s = << >> THEN -1
    ELSE IF s[Len(s)] = c THEN Len(s) - 1
    ELSE rfind(SubSeq(s, 1, Len(s) - 1), c)

Ellipsis == <<".", ".", ".">>

\* (variant) the cut is never moved back to a sentence boundary
summarize_content_NoBreak(content, max_length) ==
    IF Len(content) <= max_length THEN content
    ELSE Prefix(content, max_length) \o Ellipsis

\* summarize_content(content, max_length); "break_point > max_length * 0.7"
\* is compared in tenths
summarize_content(content, max_length) ==
    IF Len(content) <= max_length THEN content
    ELSE LET truncated    == Prefix(content, max_length)
             last_period  == rfind(truncated, ".")
             last_newline == rfind(truncated, "\n")
             break_point  == Max(last_period, last_newline)
         IN  IF 10 * break_point > 7 * max_length
             THEN Prefix(truncated, break_point + 1) \o Ellipsis
             ELSE truncated \o Ellipsis

\* the contents and the lengths summarize_content is called with
SummaryChars == {"x", ".", "\n"}
MaxLengths == 0..MaxContent

InitSummarize ==
    /\ enabled = FALSE
    /\ contexts = {}
    /\ context_vectors = << >>
    /\ vec_contexts = << >>
    /\ pushedEnabled = {}
    /\ inflight = {}
    /\ \E content \in SeqsUpTo(SummaryChars, MaxContent), max_length \in MaxLengths :
          resp = Resp("called", [content |-> content, max_length |-> max_length],
                      0, "", << >>, << >>, {})

SummarizeContent ==
    /\ resp.op = "called"
    /\ resp' = Resp("summarize_content", resp.args, 0, "returned", << >>,
                    summarize_content(resp.args.content, resp.args.max_length), {})
    /\ UNCHANGED <<enabled, contexts, context_vectors, vec_contexts, pushedEnabled,
                   inflight>>

NextSummarize == SummarizeContent

SpecSummarize == InitSummarize /\ [][NextSummarize]_vars

\* the places, from 0, of the '.' and newline characters among the first
\* n characters of a text
Breaks(s, n) == {i \in 0..(Min(n, Len(s)) - 1) : s[i + 1] \in {".", "\n"}}

\* C29: summarize_content returns content unchanged when it has at most
\* max_length characters. Otherwise it returns a prefix of content of at
\* most max_length characters followed by "...": the prefix ends with the
\* last '.' or newline of the first max_length characters when the place of
\* that character is greater than 0.7 * max_length, and is the first
\* max_length characters otherwise. The result has at most max_length + 3
\* characters.
C29_SummarizeContent ==
    resp.op = "summarize_content" =>
        LET content == resp.args.content
            m       == resp.args.max_length
            B       == Breaks(content, m)
            cut     == IF B # {} /\ 10 * SetMax(B) > 7 * m THEN SetMax(B) + 1 ELSE m
        IN  IF Len(content) <= m
            THEN resp.out = content
            ELSE /\ cut <= m
                 /\ resp.out = SubSeq(content, 1, cut) \o Ellipsis
                 /\ Len(resp.out) <= m + 3

\* C29, its case: a content longer than max_length was cut after a '.'
\* or newline that is not the last of the first max_length characters
C29_Witness ==
    /\ resp.op = "summarize_content"
    /\ Len(resp.args.content) > resp.args.max_length
    /\ Len(resp.out) = resp.args.max_length + 2
    /\ resp.out[resp.args.max_length - 1] \in {".", "\n"}

----------------------------------------------------------------------------
(* cleanup_tags.py: the tag cleanup script (SpecCleanup) *)

\* a stored tag has at most MaxTagLen characters
MaxTagLen == 2
\* a stored tag list has at most MaxTags tags
MaxTags == 2

\* str.lower() for one character, and for a text
LowerChar(c) == IF c = "A" THEN "a" ELSE c
lower(s) == [i \in 1..Len(s) |-> LowerChar(s[i])]

\* s.startswith(c)
startswith(s, c) == s # << >> /\ Head(s) = c

\* re.sub(r'[\[\]"\\]', '', tag)
RECURSIVE re_sub(_)
re_sub(s) ==
    IF s = << >> THEN << >>
    ELSE IF Head(s) \in {"[", "]", "\"", "\\"} THEN re_sub(Tail(s))
    ELSE <<Head(s)>> \o re_sub(Tail(s))

\* clean_tag(tag): tag is None or Some(text); the result is None or
\* Some(text), and Some(<< >>) is the empty string
clean_tag(tag) ==
    IF tag = None \/ tag[1] = << >> THEN None
    ELSE LET t == Strip(tag[1])
         IN  IF startswith(t, "[") \/ startswith(t, "\"")
             THEN LET cleaned == Strip(re_sub(t))
                  IN  IF cleaned # << >> THEN Some(lower(cleaned)) ELSE None
             ELSE Some(lower(t))

\* a value is in a list
InList(x, list) == \E j \in 1..Len(list) : list[j] = x

\* the loop "for tag in tags" of cleanup_tags, from the values of
\* clean_tags and needs_fix before the first tag
RECURSIVE CleanLoop(_, _, _)
CleanLoop(tags, clean_tags, needs_fix) ==
    IF tags = << >> THEN [clean_tags |-> clean_tags, needs_fix |-> needs_fix]
    ELSE LET tag == Head(tags)
         IN  IF tag # << >> /\ (startswith(tag, "[") \/ startswith(tag, "\"")
                                \/ tag # lower(tag))
             THEN LET cleaned == clean_tag(Some(tag))
                  IN  CleanLoop(Tail(tags),
                                IF cleaned # None /\ cleaned[1] # << >>
                                   /\ ~InList(cleaned[1], clean_tags)
                                THEN Append(clean_tags, cleaned[1]) ELSE clean_tags,
                                TRUE)
             ELSE IF tag # << >>
             THEN LET normalized == lower(tag)
                  IN  CleanLoop(Tail(tags),
                                IF ~InList(normalized, clean_tags)
                                THEN Append(clean_tags, normalized) ELSE clean_tags,
                                needs_fix \/ normalized # tag)
             ELSE CleanLoop(Tail(tags), clean_tags, needs_fix)

\* the row of a context after the run: UPDATE contexts SET tags when
\* needs_fix
CleanedRow(c) ==
    LET r == CleanLoop(c.tags, << >>, FALSE)
    IN  IF r.needs_fix THEN [c EXCEPT !.tags = r.clean_tags] ELSE c

\* cleanup_tags(): the table after session.commit() and the two counters
\* (tags is never NULL here: the JSON text of a list, "[]" too, is true)
cleanup_tags(ctxs) ==
    [contexts |-> {CleanedRow(c) : c \in ctxs},
     fixed_count |->
        Cardinality({c \in ctxs : CleanLoop(c.tags, << >>, FALSE).needs_fix}),
     already_clean |->
        Cardinality({c \in ctxs : ~CleanLoop(c.tags, << >>, FALSE).needs_fix})]

\* the tags the table holds before the script runs
CleanupChars == {"a", "A", "[", " "}
StoredTags == SeqsUpTo(CleanupChars, MaxTagLen)

InitCleanup ==
    /\ enabled = FALSE
    /\ context_vectors = << >>
    /\ vec_contexts = << >>
    /\ pushedEnabled = {}
    /\ inflight = {}
    /\ resp = NoResp
    /\ \E tags \in SeqsUpTo(StoredTags, MaxTags) :
          contexts = {[id |-> 1, key |-> "k1", content |-> <<"a">>, summary |-> None,
                       context_metadata |-> None, tags |-> tags]}

CleanupTags ==
    LET r == cleanup_tags(contexts)
    IN  /\ contexts' = r.contexts
        /\ resp' = Resp("cleanup_tags", [before |-> contexts], 0, "committed", << >>,
                        [fixed_count |-> r.fixed_count,
                         already_clean |-> r.already_clean], {})
        /\ UNCHANGED <<enabled, context_vectors, vec_contexts, pushedEnabled, inflight>>

CleanTag(tag) ==
    /\ resp' = Resp("clean_tag", [tag |-> tag], 0, "returned", << >>,
                    clean_tag(Some(tag)), {})
    /\ UNCHANGED <<enabled, contexts, context_vectors, vec_contexts, pushedEnabled,
                   inflight>>

NextCleanup ==
    \/ CleanupTags
    \/ \E tag \in StoredTags : CleanTag(tag)

SpecCleanup == InitCleanup /\ [][NextCleanup]_vars

\* a tag list as the claim wants it: lowercase tags without a leading '['
\* or '"', none empty, none twice
IsNormalTagList(tags) ==
    /\ \A j \in 1..Len(tags) :
          /\ tags[j] = lower(tags[j])
          /\ tags[j] # << >>
          /\ ~startswith(tags[j], "[") /\ ~startswith(tags[j], "\"")
    /\ \A i, j \in 1..Len(tags) : i # j => tags[i] # tags[j]

\* C30: tag cleanup normalizes and is idempotent. After cleanup_tags every
\* stored tag list holds only lowercase tags without a leading '[' or '"',
\* no empty tag and no tag twice; clean_tag(clean_tag(t)) = clean_tag(t)
\* for every tag t; and a second run of cleanup_tags fixes no context and
\* changes nothing.
C30_CleanupNormalizesIdempotent ==
    /\ resp.op = "cleanup_tags" =>
          /\ \A c \in contexts : IsNormalTagList(c.tags)
          /\ cleanup_tags(contexts).contexts = contexts
          /\ cleanup_tags(contexts).fixed_count = 0
    /\ resp.op = "clean_tag" => clean_tag(resp.out) = resp.out

----------------------------------------------------------------------------
(* The MCP tools of mcp_server/server.py and of the packaged               *)
(* brainrot_mcp/__main__.py                                                 *)

\* the tags argument of the push_context tool: None, a list of texts or a
\* text (the field of the other kind is left empty)
NoTags == [kind |-> "none", list |-> << >>, text |-> << >>]
TagList(v) == [kind |-> "list", list |-> v, text |-> << >>]
TagStr(v) == [kind |-> "str", list |-> << >>, text |-> v]

\* "if tags:": None, [] and "" are false
Truthy(tags) == tags.list # << >> \/ tags.text # << >>

\* [str(tag).strip() for tag in tags if str(tag).strip()]
RECURSIVE StripAll(_)
StripAll(list) ==
    IF list = << >> THEN << >>
    ELSE IF Strip(Head(list)) # << >>
    THEN <<Strip(Head(list))>> \o StripAll(Tail(list))
    ELSE StripAll(Tail(list))

\* s.split(","): the texts between the commas, at least one
RECURSIVE split(_, _)
split(s, cur) ==
    IF s = << >> THEN <<cur>>
    ELSE IF Head(s) = "," THEN <<cur>> \o split(Tail(s), << >>)
    ELSE split(Tail(s), Append(cur, Head(s)))

\* s.endswith(c)
endswith(s, c) == s # << >> /\ s[Len(s)] = c

\* json.loads of a text that holds an array of strings: Some(list), or None
\* for json.JSONDecodeError. st is what the parser expects next: "first"
\* after '[', "value" after ',', "after" after a string. (Numbers, literals,
\* escapes and arrays within the array are not among the texts drawn.)
RECURSIVE json_items(_, _, _), json_string(_, _, _)
json_items(s, acc, st) ==
    IF s = << >> THEN None
    ELSE IF IsSpace(Head(s)) THEN json_items(Tail(s), acc, st)
    ELSE IF Head(s) = "\"" /\ st \in {"first", "value"}
    THEN json_string(Tail(s), acc, << >>)
    ELSE IF Head(s) = "]" /\ st \in {"first", "after"}
    THEN (IF Strip(Tail(s)) = << >> THEN Some(acc) ELSE None)
    ELSE IF Head(s) = "," /\ st = "after" THEN json_items(Tail(s), acc, "value")
    ELSE None

json_string(s, acc, cur) ==
    IF s = << >> THEN None
    ELSE IF Head(s) = "\"" THEN json_items(Tail(s), Append(acc, cur), "after")
    ELSE json_string(Tail(s), acc, Append(cur, Head(s)))

json_loads(s) ==
    IF startswith(LStrip(s), "[") THEN json_items(Tail(LStrip(s)), << >>, "first")
    ELSE None

\* (variant) a text is taken as one tag, as the packaged tool does
parsed_tags_NoSplit(tags) ==
    IF ~Truthy(tags) THEN << >>
    ELSE IF tags.kind = "list" THEN StripAll(tags.list)
    ELSE StripAll(<<tags.text>>)

\* parsed_tags of push_context in server.py: a list is used as it is, a text
\* is split at its commas
parsed_tags(tags) ==
    IF ~Truthy(tags) THEN << >>
    ELSE IF tags.kind = "list" THEN StripAll(tags.list)
    ELSE IF Strip(tags.text) # << >> THEN StripAll(split(tags.text, << >>))
    ELSE << >>

\* parsed_tags of push_context in __main__.py: a text is a JSON array or
\* one single tag
parsed_tags_package(tags) ==
    IF ~Truthy(tags) THEN << >>
    ELSE IF tags.kind = "str"
    THEN LET t      == Strip(tags.text)
             single == IF t # << >> THEN <<t>> ELSE << >>
         IN  IF startswith(t, "[") /\ endswith(t, "]")
             THEN (IF json_loads(tags.text) # None
                   THEN StripAll(json_loads(tags.text)[1]) ELSE single)
             ELSE single
    ELSE StripAll(tags.list)

\* the two shipped versions of the tool
Versions == {"server.py", "__main__.py"}

ParsedTagsOf(version, tags) ==
    IF version = "server.py" THEN parsed_tags(tags) ELSE parsed_tags_package(tags)

\* what the HTTP exchange of a tool call comes to: the response is
\* delivered; its body is not the JSON the tool reads; the request never
\* reaches the backend (httpx.ConnectError, httpx.ConnectTimeout); the
\* backend works but the response does not arrive in time
\* (httpx.ReadTimeout); the backend answers 503 without running the handler
NetOutcomes ==
    {"delivered", "malformed_body", "ConnectError", "ConnectTimeout",
     "ReadTimeout", "status_503"}

\* the handler of the endpoint runs
HandlerRuns(net) == net \in {"delivered", "malformed_body", "ReadTimeout"}

\* the subclasses of httpx.HTTPError among the exceptions of the model
HTTPErrors == {"HTTPStatusError", "ConnectError", "ConnectTimeout", "ReadTimeout"}

\* "await client.get/post/delete(...)" for a handler that answers status
\* and body: the response, or the exception raised. body None is a body
\* response.json() cannot read.
Exchange(net, status, body) ==
    CASE net = "delivered"      -> [exc |-> "none", status |-> status, body |-> body]
      [] net = "malformed_body" -> [exc |-> "none", status |-> status, body |-> None]
      [] net = "status_503"     -> [exc |-> "none", status |-> "503", body |-> None]
      [] OTHER                  -> [exc |-> net, status |-> "", body |-> None]

\* response.raise_for_status() and response.json(): the exception they
\* raise, "none" when the body is read
ReadResponse(x) ==
    IF x.exc # "none" THEN x.exc
    ELSE IF x.status # "200" THEN "HTTPStatusError"
    ELSE IF x.body = None THEN "JSONDecodeError"
    ELSE "none"

Returned(dict) == [exc |-> "none", ret |-> dict]
Raised(exc) == [exc |-> exc, ret |-> << >>]

\* (variant) a tool without its "except Exception" clause
except_clauses_HTTPOnly(r, failed) ==
    IF r.exc = "none" THEN r.ret
    ELSE IF r.exc \in HTTPErrors THEN [success |-> FALSE, error |-> failed]
    ELSE [raised |-> r.exc]

\* "except httpx.HTTPError" and "except Exception" around the body of a
\* tool: the dictionary the tool returns
except_clauses(r, failed) ==
    IF r.exc = "none" THEN r.ret
    ELSE IF r.exc \in HTTPErrors THEN [success |-> FALSE, error |-> failed]
    ELSE [success |-> FALSE, error |-> "Unexpected error"]

\* what a call did, for resp: success=True, success=False or raised
StatusOf(ret) ==
    IF "success" \notin DOMAIN ret THEN "raised"
    ELSE IF ret.success THEN "success=True" ELSE "success=False"

\* the status the tool saw, or the exception of the exchange
HttpOf(x) == IF x.exc # "none" THEN x.exc ELSE x.status

\* max_length of the summaries push_context makes
SummaryLength == 200

\* the body push_context posts
context_data(version, key, content, tags, priority) ==
    [key |-> key, content |-> content,
     summary |-> Some(summarize_content(content, SummaryLength)),
     tags |-> ParsedTagsOf(version, tags),
     context_metadata |-> Some([priority |-> priority, source |-> "mcp_push",
                                char_count |-> Len(content)])]

\* the push_context tool, from the exchange on
mcp_push_context(x) ==
    except_clauses(
        IF ReadResponse(x) # "none" THEN Raised(ReadResponse(x))
        ELSE Returned([success |-> TRUE, key |-> x.body[1].key,
                       summary |-> x.body[1].summary, tags |-> x.body[1].tags]),
        "Failed to store context")

PushContextTool(version, key, content, tags, priority, net) ==
    /\ resp = NoResp
    /\ \E storage_ok \in IF HandlerRuns(net) THEN PushStorageOutcomes(enabled) ELSE {TRUE} :
          LET r   == PushResult(enabled, storage_ok, contexts, context_vectors,
                                vec_contexts,
                                context_data(version, key, content, tags, priority))
              x   == Exchange(net, r.status, r.out)
              ret == mcp_push_context(x)
          IN  /\ IF HandlerRuns(net) THEN PushTables(r)
                 ELSE UNCHANGED <<contexts, context_vectors, vec_contexts, pushedEnabled>>
              /\ resp' = Resp("push_context_tool",
                              [version |-> version, key |-> key, content |-> content,
                               tags |-> tags, priority |-> priority, net |-> net],
                              r.row.id, StatusOf(ret), << >>,
                              [http |-> HttpOf(x), ret |-> ret], {"backend"})
    /\ UNCHANGED <<enabled, inflight>>

\* GET /api/contexts/{key} of the backend
pop_context(ctxs, key) ==
    LET context == FirstByKey(ctxs, key)
    IN  IF context = None THEN [status |-> "404", body |-> Some([detail |-> "not found"])]
        ELSE [status |-> "200", body |-> context]

\* the priority a tool shows for a context
PriorityOf(ctx) ==
    IF ctx.context_metadata # None /\ "priority" \in DOMAIN ctx.context_metadata[1]
    THEN Some(ctx.context_metadata[1].priority) ELSE None

\* the pop_context tool, from the exchange on
mcp_pop_context(x) ==
    except_clauses(
        IF x.exc # "none" THEN Raised(x.exc)
        ELSE IF x.status = "404"
        THEN Returned([success |-> FALSE, error |-> "No context found with key"])
        ELSE IF ReadResponse(x) # "none" THEN Raised(ReadResponse(x))
        ELSE Returned([success |-> TRUE, key |-> x.body[1].key,
                       content |-> x.body[1].content, summary |-> x.body[1].summary,
                       tags |-> x.body[1].tags, priority |-> PriorityOf(x.body[1])]),
        "Failed to retrieve context")

PopContextTool(key, net) ==
    /\ resp = NoResp
    /\ LET a   == pop_context(contexts, key)
           x   == Exchange(net, a.status, a.body)
           ret == mcp_pop_context(x)
       IN  resp' = Resp("pop_context_tool", [key |-> key, net |-> net], IdOfKey(key),
                        StatusOf(ret), << >>, [http |-> HttpOf(x), ret |-> ret],
                        {"backend"})
    /\ UNCHANGED <<enabled, contexts, context_vectors, vec_contexts, pushedEnabled,
                   inflight>>

\* the lists that hold every element of a set once: query.all() has no
\* ORDER BY
Orderings(S) ==
    {q \in [1..Cardinality(S) -> S] : \A i, j \in 1..Cardinality(S) : i # j => q[i] # q[j]}

\* GET /api/contexts of the backend: tag is None or Some(text)
list_contexts(ctxs, tag) ==
    IF tag # None /\ tag[1] # << >>
    THEN Orderings({ctx \in ctxs : InList(tag[1], ctx.tags)})
    ELSE Orderings(ctxs)

\* list[:limit] of Python: a negative limit leaves out the last -limit
PySlice(list, limit) ==
    IF limit >= 0 THEN SubSeq(list, 1, Min(limit, Len(list)))
    ELSE SubSeq(list, 1, Max(0, Len(list) + limit))

\* params of the list_contexts tool: "if tag and tag.strip()"
TagParam(tag) == IF Strip(tag) # << >> THEN Some(Strip(tag)) ELSE None

\* the list_contexts tool, from the exchange on
mcp_list_contexts(x, tag, limit) ==
    except_clauses(
        IF ReadResponse(x) # "none" THEN Raised(ReadResponse(x))
        ELSE LET shown == PySlice(x.body[1], limit)
                 formatted_contexts ==
                     [j \in 1..Len(shown) |->
                         [key |-> shown[j].key, summary |-> shown[j].summary,
                          tags |-> shown[j].tags, priority |-> PriorityOf(shown[j])]]
             IN  Returned([success |-> TRUE, count |-> Len(formatted_contexts),
                           contexts |-> formatted_contexts,
                           filter |-> IF Strip(tag) # << >> THEN Some(tag) ELSE None]),
        "Failed to list contexts")

ListContextsTool(tag, limit, net) ==
    /\ resp = NoResp
    /\ \E all \in list_contexts(contexts, TagParam(tag)) :
          LET x   == Exchange(net, "200", Some(all))
              ret == mcp_list_contexts(x, tag, limit)
          IN  resp' = Resp("list_contexts_tool",
                           [tag |-> tag, limit |-> limit, net |-> net], 0,
                           StatusOf(ret), << >>, [http |-> HttpOf(x), ret |-> ret],
                           {"backend"})
    /\ UNCHANGED <<enabled, contexts, context_vectors, vec_contexts, pushedEnabled,
                   inflight>>

\* the search_contexts tool, from the exchange on
mcp_search_contexts(x) ==
    except_clauses(
        IF ReadResponse(x) # "none" THEN Raised(ReadResponse(x))
        ELSE Returned([success |-> TRUE, count |-> Len(x.body[1]),
                       contexts |-> [j \in 1..Len(x.body[1]) |-> Formatted(x.body[1][j])]]),
        "Failed to search contexts")

SearchContextsTool(query, limit, threshold, net) ==
    /\ resp = NoResp
    /\ IF Strip(query) = << >>
       THEN /\ resp' = Resp("search_contexts_tool",
                            [query |-> query, limit |-> limit,
                             threshold |-> threshold, net |-> net], 0,
                            "success=False", << >>,
                            [http |-> "none",
                             ret |-> [success |-> FALSE,
                                      error |-> "Query cannot be empty"]], {})
            /\ UNCHANGED contexts
       ELSE \E storage_ok \in IF HandlerRuns(net) THEN StorageOutcomes(enabled, query)
                                                ELSE {TRUE} :
              \E r \in semantic_search(enabled, storage_ok, contexts, vec_contexts,
                                       Strip(query), limit, threshold) :
                 LET x   == Exchange(net, r.status, Some(r.out))
                     ret == mcp_search_contexts(x)
                 IN  /\ resp' = Resp("search_contexts_tool",
                                     [query |-> query, limit |-> limit,
                                      threshold |-> threshold, net |-> net], 0,
                                     StatusOf(ret), r.similar,
                                     [http |-> HttpOf(x), ret |-> ret], {"backend"})
                     /\ contexts' = IF HandlerRuns(net) THEN get_db(contexts, r.session)
                                                        ELSE contexts
    /\ UNCHANGED <<enabled, context_vectors, vec_contexts, pushedEnabled, inflight>>

\* the delete_context tool, from the exchange on
mcp_delete_context_tool(x) ==
    except_clauses(
        IF x.exc # "none" THEN Raised(x.exc)
        ELSE IF x.status = "404"
        THEN Returned([success |-> FALSE, error |-> "No context found with key"])
        ELSE IF x.status # "200" THEN Raised("HTTPStatusError")
        ELSE Returned([success |-> TRUE, message |-> "deleted successfully"]),
        "Failed to delete context")

DeleteContextTool(key, net) ==
    /\ resp = NoResp
    /\ IF HandlerRuns(net) THEN DeleteTables(key)
       ELSE UNCHANGED <<contexts, context_vectors, vec_contexts, pushedEnabled>>
    /\ LET x   == Exchange(net, DeleteStatus(key), Some([message |-> "deleted"]))
           ret == mcp_delete_context_tool(x)
       IN  resp' = Resp("delete_context_tool", [key |-> key, net |-> net],
                        IdOfKey(key), StatusOf(ret), << >>,
                        [http |-> HttpOf(x), ret |-> ret], {"backend"})
    /\ UNCHANGED <<enabled, inflight>>

----------------------------------------------------------------------------
(* The tags of the push_context tool (SpecTags) *)

\* the tags argument: lists of texts over 'a', blank and comma, the same
\* lists joined with commas, and texts that look like JSON arrays
ToolTagChars == {"a", " ", ","}
ToolTagTexts == SeqsUpTo(ToolTagChars, MaxTagLen)

\* ",".join(list)
RECURSIVE Join(_)
Join(list) ==
    IF list = << >> THEN << >>
    ELSE IF Len(list) = 1 THEN Head(list)
    ELSE Head(list) \o <<",">> \o Join(Tail(list))

JsonTexts ==
    {<<"[", "\"", "a", "\"", "]">>,
     <<"[", "\"", "a", "\"", ",", " ", "\"", " ", "a", "\"", "]">>,
     <<" ", "[", "]">>,
     <<"[", "a", "]">>,
     <<"[", "\"", "a", "]">>}

\* one push of a list of tags, as an array or joined with commas
PushTags(version) ==
    /\ resp = NoResp
    /\ \E list \in SeqsUpTo(ToolTagTexts, MaxTags), form \in {"list", "str"} :
          PushContextTool(version, "k1", <<"a">>,
                          IF form = "list" THEN TagList(list) ELSE TagStr(Join(list)),
                          "medium", "delivered")

\* one push of a text that looks like a JSON array, or without tags
PushJsonTags(version) ==
    \E tags \in {NoTags} \cup {TagStr(t) : t \in JsonTexts} :
        PushContextTool(version, "k1", <<"a">>, tags, "medium", "delivered")

\* the tables are empty and vector search is off: the tags of a record
\* take no part in its embedding
InitTags ==
    /\ enabled = FALSE
    /\ contexts = {}
    /\ context_vectors = << >>
    /\ vec_contexts = << >>
    /\ pushedEnabled = {}
    /\ inflight = {}
    /\ resp = NoResp

NextTags ==
    \/ \E version \in Versions : PushTags(version)
    \/ \E version \in Versions : PushJsonTags(version)

SpecTags == InitTags /\ [][NextTags]_vars

\* the tag list stored for the key of the last push
StoredTagsOf(key) == (CHOOSE c \in contexts : c.key = key).tags

\* no tag of a list holds a comma
CommaFree(list) ==
    \A j \in 1..Len(list) : \A i \in 1..Len(list[j]) : list[j][i] # ","

IsTagPush == resp.op = "push_context_tool" /\ resp.status = "success=True"

\* every tag of a list is stripped and not empty
StrippedNonEmpty(list) ==
    \A j \in 1..Len(list) : list[j] # << >> /\ Strip(list[j]) = list[j]

\* C23 (as the code has it): the push_context tool of server.py accepts tags
\* as an array or as a comma-separated string, and an array of tags without
\* commas yields the stored tag list that the same tags joined with commas
\* yield; in both versions of the tool and for both forms every stored tag
\* is stripped of surrounding whitespace and none is empty.
C23_TagFormsAgreeInServerPy ==
    IsTagPush =>
        /\ StrippedNonEmpty(StoredTagsOf(resp.args.key))
        /\ (resp.args.version = "server.py" /\ resp.args.tags.kind = "list"
            /\ CommaFree(resp.args.tags.list)) =>
              StoredTagsOf(resp.args.key) = parsed_tags(TagStr(Join(resp.args.tags.list)))

\* C23 (as stated): in both shipped versions of the tool an array of tags and
\* the same tags as a comma-separated string yield the same stored tag list,
\* and every stored tag is stripped and not empty.
C23_TagFormsAgreeInBothVersions ==
    IsTagPush =>
        /\ StrippedNonEmpty(StoredTagsOf(resp.args.key))
        /\ (resp.args.tags.kind = "list" /\ CommaFree(resp.args.tags.list)) =>
              StoredTagsOf(resp.args.key) =
                  ParsedTagsOf(resp.args.version, TagStr(Join(resp.args.tags.list)))

\* C23, its case: the tool of server.py has stored two tags given as an
\* array, one of them with whitespace around it
C23_Witness ==
    /\ IsTagPush
    /\ resp.args.version = "server.py"
    /\ resp.args.tags.kind = "list"
    /\ CommaFree(resp.args.tags.list)
    /\ Len(StoredTagsOf(resp.args.key)) = 2
    /\ \E j \in 1..Len(resp.args.tags.list) :
          Strip(resp.args.tags.list[j]) # resp.args.tags.list[j]

----------------------------------------------------------------------------
(* The five tools against a backend that may fail (SpecTools) *)

\* the records the tables hold before the call: pushed in this order
ToolRecords ==
    << [key |-> "k1", content |-> <<"a">>, summary |-> None,
        context_metadata |-> None, tags |-> << <<"t">> >>],
       [key |-> "k2", content |-> <<"b">>, summary |-> Some(<<"s">>),
        context_metadata |-> Some([priority |-> "high"]),
        tags |-> << <<"t">>, <<"u">> >>] >>

\* the tables after the pushes of the records of places S, in order
RECURSIVE PushAll(_, _, _)
PushAll(en, t, S) ==
    IF S = {} THEN t
    ELSE LET i == CHOOSE x \in S : \A y \in S : x <= y
             r == PushResult(en, TRUE, t.contexts, t.cv, t.vec, ToolRecords[i])
         IN  PushAll(en, [contexts |-> r.contexts, cv |-> r.cv, vec |-> r.vec], S \ {i})

InitTools ==
    /\ enabled \in BOOLEAN
    /\ inflight = {}
    /\ resp = NoResp
    /\ \E S \in SUBSET (1..Len(ToolRecords)) :
          LET t == PushAll(enabled, [contexts |-> {}, cv |-> << >>, vec |-> << >>], S)
          IN  /\ contexts = t.contexts
              /\ context_vectors = t.cv
              /\ vec_contexts = t.vec
              /\ pushedEnabled = IF enabled THEN {c.id : c \in t.contexts} ELSE {}

\* the arguments of the tools
ToolTags == {NoTags, TagList(<< <<"t">>, <<" ">> >>), TagStr(<<"t", ",", "u">>)}
ToolContents == {<<"a">>, <<"b">>}
ListTags == {<< >>, <<" ">>, <<"t">>, <<" ", "u">>, <<"x">>}
ListLimits == (-1)..MaxLimit

NextTools ==
    \/ \E key \in Keys, content \in ToolContents, tags \in ToolTags,
          net \in NetOutcomes :
          PushContextTool("server.py", key, content, tags, "medium", net)
    \/ \E key \in Keys, net \in NetOutcomes : PopContextTool(key, net)
    \/ \E tag \in ListTags, limit \in ListLimits, net \in NetOutcomes :
          ListContextsTool(tag, limit, net)
    \/ \E query \in Queries, limit \in EndpointLimits,
          threshold \in EndpointThresholds, net \in NetOutcomes :
          SearchContextsTool(query, limit, threshold, net)
    \/ \E key \in Keys, net \in NetOutcomes : DeleteContextTool(key, net)

SpecTools == InitTools /\ [][NextTools]_vars

IsToolCall ==
    resp.op \in {"push_context_tool", "pop_context_tool", "list_contexts_tool",
                 "search_contexts_tool", "delete_context_tool"}

\* C28: no MCP tool raises to its caller. For every outcome of the backend
\* (404, another error status, connection failure, timeout, a body that
\* cannot be read) the tool returns a dictionary with a boolean success;
\* success is True only when the backend answered with a success status;
\* and a 404 on pop or delete yields success False with the error
\* 'No context found'.
C28_ToolsNeverRaise ==
    IsToolCall =>
        /\ resp.status # "raised"
        /\ "success" \in DOMAIN resp.out.ret
        /\ resp.out.ret.success \in BOOLEAN
        /\ resp.out.ret.success => resp.out.http = "200"
        /\ (resp.op \in {"pop_context_tool", "delete_context_tool"}
            /\ resp.out.http = "404") =>
              /\ ~resp.out.ret.success
              /\ resp.out.ret.error = "No context found with key"

\* C28, its case: a tool got a 200 whose body it could not read and
\* returned success False
C28_Witness ==
    /\ IsToolCall
    /\ resp.args.net = "malformed_body"
    /\ resp.out.http = "200"
    /\ resp.status = "success=False"

\* C22: the list_contexts tool returns at most limit contexts (none for a
\* limit below 1) for every limit and every response of the backend, its
\* count is the number of contexts returned, and with a tag filter every
\* context returned has the requested tag in its tag list.
C22_ListAtMostLimit ==
    (resp.op = "list_contexts_tool" /\ resp.status = "success=True") =>
        LET ret == resp.out.ret
        IN  /\ Len(ret.contexts) <= Max(0, resp.args.limit)
            /\ ret.count = Len(ret.contexts)
            /\ Strip(resp.args.tag) # << >> =>
                  \A j \in 1..Len(ret.contexts) :
                      InList(Strip(resp.args.tag), ret.contexts[j].tags)

====
